---- MODULE Spec2Model ----
(***************************************************************************)
(* Model of the vertex_ai_imagen client library: ImagenClient              *)
(* (client.py), ImageRequest / GeneratedImage (models.py) and the          *)
(* exception hierarchy (exceptions.py).                                    *)
(*                                                                         *)
(* Python values are represented as follows.                               *)
(*   str            a sequence of one-character strings, or a TLA+ string  *)
(*                  for values that are only compared (model names,        *)
(*                  aspect ratios, safety settings, tokens)                *)
(*   Optional[T]    <<>> for None / absent key, <<v>> for a present value  *)
(*   exception      a record carrying the class name, status_code, message *)
(***************************************************************************)
EXTENDS Integers, Sequences, FiniteSets, TLC

(* ------------------------------ bounds -------------------------------- *)

\* largest count argument tried (the valid range is 1..4)
MaxCount == 5
\* largest number of predictions a simulated response carries
MaxPreds == 5

(* ------------------------- Optional[...] values ------------------------ *)

None == <<>>
Some(v) == <<v>>
IsNone(o) == o = <<>>
Get(o) == o[1]

(* ---------------------------- exceptions.py ---------------------------- *)

\* class hierarchy: the set of classes an exception of class c is an
\* instance of
Bases(c) ==
    CASE c = "ImagenError"         -> {"ImagenError", "Exception"}
      [] c = "AuthenticationError" -> {"AuthenticationError", "ImagenError", "Exception"}
      [] c = "APIError"            -> {"APIError", "ImagenError", "Exception"}
      [] c = "ValidationError"     -> {"ValidationError", "ImagenError", "Exception"}
      [] OTHER                     -> {c, "Exception"}

IsInstance(e, classes) == Bases(e.exc) \cap classes # {}

\* an exception object: Exception(message); only APIError stores status_code
Exc(c, msg) == [exc |-> c, status_code |-> None, message |-> msg]

APIError(msg, status_code) ==
    [exc |-> "APIError", status_code |-> status_code, message |-> msg]

(* ------------------------------ models.py ------------------------------ *)

Whitespace == {" ", "\t", "\n"}

\* str.strip(): drop leading and trailing whitespace
RECURSIVE LStrip(_)
LStrip(s) ==
    IF s = <<>> THEN s
    ELSE IF Head(s) \in Whitespace THEN LStrip(Tail(s)) ELSE s

RECURSIVE RStrip(_)
RStrip(s) ==
    IF s = <<>> THEN s
    ELSE IF s[Len(s)] \in Whitespace THEN RStrip(SubSeq(s, 1, Len(s) - 1)) ELSE s

Strip(s) == RStrip(LStrip(s))

valid_ratios == <<"1:1", "3:4", "4:3", "16:9", "9:16">>

InList(x, list) == \E i \in 1..Len(list) : list[i] = x

\* a variant of __post_init__ that tests the prompt without strip()
PostInitCheck_no_strip(r) ==
    IF r.prompt = <<>>
        THEN Some(Exc("ValueError", <<"prompt is required">>))
    ELSE IF r.count < 1 \/ r.count > 4
        THEN Some(Exc("ValueError", <<"count must be 1-4">>))
    ELSE IF ~InList(r.aspect_ratio, valid_ratios)
        THEN Some(Exc("ValueError", <<"supported ratios: ">> \o valid_ratios))
    ELSE None

\* ImageRequest.__post_init__: None when the request is valid, otherwise the
\* exception it raises (first failing check wins)
PostInitCheck(r) ==
    IF r.prompt = <<>> \/ Strip(r.prompt) = <<>>
        THEN Some(Exc("ValueError", <<"prompt is required">>))
    ELSE IF r.count < 1 \/ r.count > 4
        THEN Some(Exc("ValueError", <<"count must be 1-4">>))
    ELSE IF ~InList(r.aspect_ratio, valid_ratios)
        THEN Some(Exc("ValueError", <<"supported ratios: ">> \o valid_ratios))
    ELSE None

\* ImageRequest(...): the dataclass instance, None when __post_init__ raised
ImageRequest(a) == IF IsNone(PostInitCheck(a)) THEN Some(a) ELSE None

\* GeneratedImage.__init__
GeneratedImage(base64_data, prompt, enhanced_prompt) ==
    [base64_data     |-> base64_data,
     prompt          |-> prompt,
     enhanced_prompt |-> IF IsNone(enhanced_prompt) \/ Get(enhanced_prompt) = <<>>
                         THEN prompt ELSE Get(enhanced_prompt)]

\* a variant of from_api_response that looks the prompt up under a key the
\* prediction does not have
from_api_response_wrong_key(prediction) ==
    GeneratedImage(Get(prediction.bytesBase64Encoded), <<>>, None)

\* GeneratedImage.from_api_response; the caller has checked that the
\* prediction carries bytesBase64Encoded (a missing key raises KeyError)
from_api_response(prediction) ==
    GeneratedImage(Get(prediction.bytesBase64Encoded),
                   IF IsNone(prediction.prompt) THEN <<>> ELSE Get(prediction.prompt),
                   prediction.prompt)

(* ------------------------------ client.py ------------------------------ *)

SUPPORTED_MODELS ==
    <<"imagegeneration@006", "imagegeneration@005", "imagegeneration@002",
      "imagen-3.0-generate-001", "imagen-3.0-generate-002",
      "imagen-3.0-fast-generate-001">>

\* the callers of generate() that may run concurrently
Tasks == {1, 2}

VARIABLES
    project_id,     \* ImagenClient.project_id
    location,       \* ImagenClient.location
    base_url,       \* ImagenClient.base_url
    credentials,    \* ImagenClient.credentials: None or Some(credential)
    setupResult,    \* outcome of the latest setup_credentials* call
    setupTrueSeen,  \* some setup_credentials* call has returned True
    pc,             \* per generate() caller: position in the coroutine
    args,           \* per caller: the arguments of the running call
    request,        \* per caller: the ImageRequest built, None if none
    job,            \* per caller: the POST handed to the executor
    posts,          \* per caller: HTTP POSTs issued for the running call
    response,       \* per caller: what requests.post produced
    outcome,        \* per caller: what generate() returned or raised
    image,          \* a GeneratedImage a caller holds, None if none
    cached,         \* GeneratedImage._image_data of that image
    accessResult,   \* what the latest accessor of that image produced
    file            \* the file save() writes: None, or Some(its bytes)

vars == <<project_id, location, base_url, credentials, setupResult,
          setupTrueSeen, pc, args, request, job, posts, response, outcome,
          image, cached, accessResult, file>>

clientVars == <<project_id, location, base_url>>
credVars == <<credentials, setupResult, setupTrueSeen>>
callVars == <<pc, args, request, job, posts, response, outcome>>
imageVars == <<image, cached, accessResult, file>>

(* --------------------------- input domains ----------------------------- *)

ProjectIds == {"my-project"}
Locations == {"us-central1"}
KeyPaths == {"sa-key.json", "other-key.json"}

Prompts ==
    { <<>>, <<" ", "\t">>, <<"c", "a", "t">>, <<" ", "a", " ", "b", "\n">> }
Counts == 0..MaxCount
AspectRatios == {"1:1", "3:4", "4:3", "16:9", "9:16", "2:1"}
CoreModels == {"imagegeneration@006", "not-a-real-model"}
Models == CoreModels \cup {"imagen-3.0-fast-generate-001"}

\* the optional keyword arguments of generate(), varied together
DefaultOptions ==
    [negative_prompt |-> None, seed |-> None,
     safety_setting |-> "block_medium_and_above", enhance_prompt |-> TRUE]

Options ==
    { DefaultOptions,
      [negative_prompt |-> Some(<<"f", "o", "g">>), seed |-> Some(0),
       safety_setting |-> "block_few", enhance_prompt |-> FALSE],
      [negative_prompt |-> Some(<<>>), seed |-> Some(7),
       safety_setting |-> "", enhance_prompt |-> TRUE] }

MkArgs(p, m, ar, c, o) ==
    [prompt |-> p, model |-> m, aspect_ratio |-> ar, count |-> c,
     negative_prompt |-> o.negative_prompt, seed |-> o.seed,
     safety_setting |-> o.safety_setting, enhance_prompt |-> o.enhance_prompt]

\* every combination of the validated fields with the default options, and
\* the other option sets on a few requests
AllArgs ==
    { MkArgs(p, m, ar, c, DefaultOptions) :
        p \in Prompts, m \in CoreModels, ar \in AspectRatios, c \in Counts }
    \cup { MkArgs(p, m, "16:9", c, o) :
        p \in Prompts, m \in Models, c \in {1, 2}, o \in Options }

NoArgs == MkArgs(<<>>, "", "", 0, DefaultOptions)

(* ------------------------------ __init__ ------------------------------- *)

BaseUrl(loc) == <<"https://", loc, "-aiplatform.googleapis.com/v1">>

\* nothing has been read from an image yet
NoAccess ==
    [op |-> "none", kind |-> "none", exc |-> "", bytes |-> <<>>, size |-> 0]

\* the client as __init__ leaves it, with no generate() call running
ClientInit ==
    /\ project_id \in ProjectIds
    /\ location \in Locations
    /\ base_url = BaseUrl(location)
    /\ credentials = None
    /\ setupResult = "none"
    /\ setupTrueSeen = FALSE
    /\ pc = [t \in Tasks |-> "idle"]
    /\ args = [t \in Tasks |-> NoArgs]
    /\ request = [t \in Tasks |-> None]
    /\ job = [t \in Tasks |-> None]
    /\ posts = [t \in Tasks |-> 0]
    /\ response = [t \in Tasks |-> None]
    /\ outcome = [t \in Tasks |-> None]

Init ==
    /\ ClientInit
    /\ image = None
    /\ cached = None
    /\ accessResult = NoAccess
    /\ file = None

(* -------------------------- setup_credentials -------------------------- *)

\* what service_account.Credentials.from_service_account_file hands back:
\* a credential without a token, or one that is already valid
LoadedCredential(key_path, valid) ==
    [key |-> key_path, valid |-> valid,
     token |-> IF valid THEN Some(<<"token:", key_path>>) ELSE None]

RefreshedCredential(key_path) == LoadedCredential(key_path, TRUE)

\* setup_credentials(key_path).  exists, loads, valid and refreshOk are the
\* answers of os.path.exists, from_service_account_file, Credentials.valid
\* and Credentials.refresh.
setup_credentials(key_path, exists, loads, valid, refreshOk) ==
    /\ IF ~exists \/ ~loads
         THEN /\ setupResult' = "AuthenticationError"
              /\ UNCHANGED <<credentials, setupTrueSeen>>
       ELSE IF valid \/ refreshOk
         THEN /\ credentials' = Some(RefreshedCredential(key_path))
              /\ setupResult' = "True"
              /\ setupTrueSeen' = TRUE
       ELSE   /\ credentials' = Some(LoadedCredential(key_path, FALSE))
              /\ setupResult' = "AuthenticationError"
              /\ UNCHANGED setupTrueSeen
    /\ UNCHANGED <<clientVars, imageVars, callVars>>

\* setup_credentials_from_env(); env is os.getenv(...): None, "" or a path
setup_credentials_from_env(env, exists, loads, valid, refreshOk) ==
    IF IsNone(env) \/ Get(env) = ""
      THEN /\ setupResult' = "AuthenticationError"
           /\ UNCHANGED <<credentials, setupTrueSeen, clientVars, imageVars, callVars>>
      ELSE setup_credentials(Get(env), exists, loads, valid, refreshOk)

\* the distinct answers of the file system and the auth library for one key
\* file: missing, rejected, valid at once, refreshed, refresh refused
KeyFileAnswers ==
    { [exists |-> FALSE, loads |-> FALSE, valid |-> FALSE, refreshOk |-> FALSE],
      [exists |-> TRUE,  loads |-> FALSE, valid |-> FALSE, refreshOk |-> FALSE],
      [exists |-> TRUE,  loads |-> TRUE,  valid |-> TRUE,  refreshOk |-> FALSE],
      [exists |-> TRUE,  loads |-> TRUE,  valid |-> FALSE, refreshOk |-> TRUE],
      [exists |-> TRUE,  loads |-> TRUE,  valid |-> FALSE, refreshOk |-> FALSE] }

EnvValues == {None, Some("")} \cup {Some(k) : k \in KeyPaths}

SetupCredentials ==
    \E key_path \in KeyPaths, f \in KeyFileAnswers :
        setup_credentials(key_path, f.exists, f.loads, f.valid, f.refreshOk)

SetupCredentialsFromEnv ==
    \E env \in EnvValues, f \in KeyFileAnswers :
        setup_credentials_from_env(env, f.exists, f.loads, f.valid, f.refreshOk)

(* ------------------------------ generate ------------------------------- *)

\* what a finished generate() call hands to its caller
Raised(e) ==
    [kind |-> "raise", exc |-> e.exc, status_code |-> e.status_code,
     message |-> e.message, shape |-> "none", images |-> <<>>]

Returned(shape, images) ==
    [kind |-> "return", exc |-> "", status_code |-> None,
     message |-> <<>>, shape |-> shape, images |-> images]

\* a variant of the checks that builds the request before looking at the
\* credential
generate_checks_request_first(cred, a) ==
    IF IsNone(ImageRequest(a))
        THEN [err |-> PostInitCheck(a), request |-> None]
    ELSE IF ~InList(Get(ImageRequest(a)).model, SUPPORTED_MODELS)
        THEN [err |-> Some(Exc("ValidationError", <<"unsupported model: ", a.model>>)),
              request |-> ImageRequest(a)]
    ELSE IF IsNone(cred)
        THEN [err |-> Some(Exc("AuthenticationError", <<"credentials are not set up">>)),
              request |-> None]
    ELSE [err |-> None, request |-> ImageRequest(a)]

\* a variant of the checks that leaves the model to the service
generate_checks_any_model(cred, a) ==
    IF IsNone(cred)
        THEN [err |-> Some(Exc("AuthenticationError", <<"credentials are not set up">>)),
              request |-> None]
    ELSE IF IsNone(ImageRequest(a))
        THEN [err |-> PostInitCheck(a), request |-> None]
    ELSE [err |-> None, request |-> ImageRequest(a)]

\* generate() up to the API call: the credential check, the ImageRequest
\* construction and the model check; err is the exception raised (None if
\* all pass), request the ImageRequest built so far
generate_checks(cred, a) ==
    IF IsNone(cred)
        THEN [err |-> Some(Exc("AuthenticationError", <<"credentials are not set up">>)),
              request |-> None]
    ELSE IF IsNone(ImageRequest(a))
        THEN [err |-> PostInitCheck(a), request |-> None]
    ELSE IF ~InList(Get(ImageRequest(a)).model, SUPPORTED_MODELS)
        THEN [err |-> Some(Exc("ValidationError", <<"unsupported model: ", a.model>>)),
              request |-> ImageRequest(a)]
    ELSE [err |-> None, request |-> ImageRequest(a)]

\* str(token) inside the f-string of the Authorization header
TokenStr(token) == IF IsNone(token) THEN <<"None">> ELSE Get(token)

\* a variant of the request building that tests the seed for truth, as the
\* other optional parameters are tested
BuildPost_seed_truthy(burl, proj, loc, cred, r) ==
    [url  |-> burl \o <<"/projects/", proj, "/locations/", loc,
                        "/publishers/google/models/", r.model, ":predict">>,
     json |-> [instances  |-> << [prompt |-> r.prompt] >>,
               parameters |->
                 [sampleCount    |-> r.count,
                  aspectRatio    |-> r.aspect_ratio,
                  addWatermark   |-> FALSE,
                  enhancePrompt  |-> r.enhance_prompt,
                  negativePrompt |-> IF ~IsNone(r.negative_prompt)
                                        /\ Get(r.negative_prompt) # <<>>
                                     THEN r.negative_prompt ELSE None,
                  safetySetting  |-> IF r.safety_setting # ""
                                     THEN Some(r.safety_setting) ELSE None,
                  seed           |-> IF ~IsNone(r.seed) /\ Get(r.seed) # 0
                                     THEN r.seed ELSE None]],
     headers |-> [Authorization |-> <<"Bearer ">> \o TokenStr(cred.token),
                  ContentType   |-> "application/json"],
     timeout |-> 180]

\* _call_api up to the executor hand-off: url, JSON body and headers
BuildPost(burl, proj, loc, cred, r) ==
    [url  |-> burl \o <<"/projects/", proj, "/locations/", loc,
                        "/publishers/google/models/", r.model, ":predict">>,
     json |-> [instances  |-> << [prompt |-> r.prompt] >>,
               parameters |->
                 [sampleCount    |-> r.count,
                  aspectRatio    |-> r.aspect_ratio,
                  addWatermark   |-> FALSE,
                  enhancePrompt  |-> r.enhance_prompt,
                  negativePrompt |-> IF ~IsNone(r.negative_prompt)
                                        /\ Get(r.negative_prompt) # <<>>
                                     THEN r.negative_prompt ELSE None,
                  safetySetting  |-> IF r.safety_setting # ""
                                     THEN Some(r.safety_setting) ELSE None,
                  seed           |-> r.seed]],
     headers |-> [Authorization |-> <<"Bearer ">> \o TokenStr(cred.token),
                  ContentType   |-> "application/json"],
     timeout |-> 180]

\* generate(...) from its entry to the await of run_in_executor
GenerateCall(t, a) ==
    /\ pc[t] = "idle"
    /\ args' = [args EXCEPT ![t] = a]
    /\ posts' = [posts EXCEPT ![t] = 0]
    /\ response' = [response EXCEPT ![t] = None]
    /\ LET chk == generate_checks(credentials, a) IN
         /\ request' = [request EXCEPT ![t] = chk.request]
         /\ IF ~IsNone(chk.err)
              THEN /\ outcome' = [outcome EXCEPT ![t] = Some(Raised(Get(chk.err)))]
                   /\ pc' = [pc EXCEPT ![t] = "done"]
                   /\ job' = [job EXCEPT ![t] = None]
              ELSE /\ job' = [job EXCEPT ![t] =
                                Some(BuildPost(base_url, project_id, location,
                                               Get(credentials), Get(chk.request)))]
                   /\ pc' = [pc EXCEPT ![t] = "submitted"]
                   /\ outcome' = [outcome EXCEPT ![t] = None]
    /\ UNCHANGED <<clientVars, imageVars, credVars>>

\* the executor's worker thread runs the lambda: requests.post(...) goes out
WorkerPost(t) ==
    /\ pc[t] = "submitted"
    /\ posts' = [posts EXCEPT ![t] = @ + 1]
    /\ pc' = [pc EXCEPT ![t] = "in_flight"]
    /\ UNCHANGED <<clientVars, imageVars, credVars, args, request, job, response, outcome>>

(* --------------------------- the HTTP transport ------------------------ *)

B64Alphabet ==
    <<"A","B","C","D","E","F","G","H","I","J","K","L","M","N","O","P",
      "Q","R","S","T","U","V","W","X","Y","Z","a","b","c","d","e","f",
      "g","h","i","j","k","l","m","n","o","p","q","r","s","t","u","v",
      "w","x","y","z","0","1","2","3","4","5","6","7","8","9","+","/">>

\* the base64 payload of the i-th image of a response
ImagePayload(i) == <<"a", "W", "1", B64Alphabet[i]>>

\* one element of "predictions"; style says whether the service leaves the
\* prompt out, echoes it or sends its rewritten prompt, hasBytes whether
\* bytesBase64Encoded is there
Prediction(i, style, hasBytes, j) ==
    [bytesBase64Encoded |-> IF hasBytes THEN Some(ImagePayload(i)) ELSE None,
     prompt |-> IF style = "echo" THEN Some(j.json.instances[1].prompt)
                ELSE IF style = "rewritten"
                  THEN Some(j.json.instances[1].prompt \o <<",", " ", "4", "k">>)
                ELSE None]

\* a predictions array of n elements; lacking > 0 names the one element
\* that has no bytesBase64Encoded
PredictionList(n, style, lacking, j) ==
    [i \in 1..n |-> Prediction(i, style, i # lacking, j)]

HttpResponse(status_code, text, kind, predictions) ==
    [raised |-> FALSE, status_code |-> status_code, text |-> text,
     json |-> [kind |-> kind, predictions |-> predictions]]

\* requests.post raised (connection error, timeout) instead of returning
TransportFailure ==
    [raised |-> TRUE, status_code |-> 0, text |-> <<"connection failed">>,
     json |-> [kind |-> "invalid", predictions |-> None]]

ErrorStatuses == {201, 403, 500}

\* the error body the service sends for the posted job j
ErrorTexts(j) == { <<>>, <<"denied: ">> \o j.url }

PredictionStyles == {"absent", "echo", "rewritten"}

\* everything the transport may answer to the posted job j
Responses(j) ==
    {TransportFailure}
    \cup { HttpResponse(s, x, "invalid", None) : s \in ErrorStatuses, x \in ErrorTexts(j) }
    \cup { HttpResponse(200, <<"ok">>, k, None) : k \in {"invalid", "list", "dict"} }
    \cup UNION { { HttpResponse(200, <<"ok">>, "dict",
                                Some(PredictionList(n, st, l, j))) :
                     st \in PredictionStyles, l \in {0, n} } : n \in 0..MaxPreds }

\* requests.post returns (or raises) in the worker thread
TransportRespond(t, r) ==
    /\ pc[t] = "in_flight"
    /\ r \in Responses(Get(job[t]))
    /\ response' = [response EXCEPT ![t] = Some(r)]
    /\ pc' = [pc EXCEPT ![t] = "responded"]
    /\ UNCHANGED <<clientVars, imageVars, credVars, args, request, job, posts, outcome>>

(* ----------------------- generate after the await ---------------------- *)

Digits == <<"0", "1", "2", "3", "4", "5", "6", "7", "8", "9">>

\* str(n) for n >= 0, as the f-string formats the status code
RECURSIVE IntToStr(_)
IntToStr(n) ==
    IF n < 10 THEN <<Digits[n + 1]>>
    ELSE IntToStr(n \div 10) \o <<Digits[(n % 10) + 1]>>

\* the rest of _call_api: the future's exception, the status check and
\* response.json(); yields [err, result]
call_api_result(r) ==
    IF r.raised
        THEN [err |-> Some(Exc("ConnectionError", r.text)), result |-> None]
    ELSE IF r.status_code # 200
        THEN [err |-> Some(APIError(<<"HTTP ">> \o IntToStr(r.status_code)
                                      \o <<": ">> \o r.text,
                                    Some(r.status_code))),
              result |-> None]
    ELSE IF r.json.kind = "invalid"
        THEN [err |-> Some(Exc("JSONDecodeError", <<"Expecting value">>)),
              result |-> None]
    ELSE [err |-> None, result |-> Some(r.json)]

\* a variant of the result parsing that returns the list for every count
parse_result_always_list(result, count) ==
    IF result.kind # "dict"
        THEN Raised(Exc("AttributeError", <<"object has no attribute 'get'">>))
    ELSE LET predictions == IF IsNone(result.predictions) THEN <<>>
                            ELSE Get(result.predictions) IN
      IF predictions = <<>>
        THEN Raised(APIError(<<"no images were generated">>, None))
      ELSE IF \E i \in 1..Len(predictions) : IsNone(predictions[i].bytesBase64Encoded)
        THEN Raised(Exc("KeyError", <<"'bytesBase64Encoded'">>))
      ELSE Returned("list", [i \in 1..Len(predictions) |->
                                from_api_response(predictions[i])])

\* a variant of the result parsing without the test for no predictions
\* (images[0] of an empty list raises IndexError)
parse_result_no_empty_check(result, count) ==
    IF result.kind # "dict"
        THEN Raised(Exc("AttributeError", <<"object has no attribute 'get'">>))
    ELSE LET predictions == IF IsNone(result.predictions) THEN <<>>
                            ELSE Get(result.predictions) IN
      IF \E i \in 1..Len(predictions) : IsNone(predictions[i].bytesBase64Encoded)
        THEN Raised(Exc("KeyError", <<"'bytesBase64Encoded'">>))
      ELSE LET images == [i \in 1..Len(predictions) |->
                              from_api_response(predictions[i])] IN
        IF count = 1
          THEN IF images = <<>>
                 THEN Raised(Exc("IndexError", <<"list index out of range">>))
                 ELSE Returned("single", <<images[1]>>)
          ELSE Returned("list", images)

\* the body of the try block after _call_api returned result
parse_result(result, count) ==
    IF result.kind # "dict"
        THEN Raised(Exc("AttributeError", <<"object has no attribute 'get'">>))
    ELSE LET predictions == IF IsNone(result.predictions) THEN <<>>
                            ELSE Get(result.predictions) IN
      IF predictions = <<>>
        THEN Raised(APIError(<<"no images were generated">>, None))
      ELSE IF \E i \in 1..Len(predictions) : IsNone(predictions[i].bytesBase64Encoded)
        THEN Raised(Exc("KeyError", <<"'bytesBase64Encoded'">>))
      ELSE LET images == [i \in 1..Len(predictions) |->
                              from_api_response(predictions[i])] IN
        IF count = 1 THEN Returned("single", <<images[1]>>)
        ELSE Returned("list", images)

\* a variant of the handler that wraps every exception
except_handler_wrap_all(o) ==
    IF o.kind # "raise" THEN o
    ELSE Raised(APIError(<<"image generation failed: ">> \o o.message, None))

\* except Exception as e: library errors pass, anything else becomes APIError
except_handler(o) ==
    IF o.kind # "raise" THEN o
    ELSE IF IsInstance(o, {"ImagenError", "ValidationError"}) THEN o
    ELSE Raised(APIError(<<"image generation failed: ">> \o o.message, None))

\* the try block of generate(), given what the transport produced
generate_result(r, count) ==
    LET c == call_api_result(r) IN
      except_handler(IF ~IsNone(c.err) THEN Raised(Get(c.err))
                     ELSE parse_result(Get(c.result), count))

\* a variant of the resumption that posts a failed request once more
GenerateResume_retry(t) ==
    /\ pc[t] = "responded"
    /\ LET o == generate_result(Get(response[t]), args[t].count) IN
         IF o.kind = "raise" /\ posts[t] < 2
           THEN /\ pc' = [pc EXCEPT ![t] = "submitted"]
                /\ UNCHANGED outcome
           ELSE /\ pc' = [pc EXCEPT ![t] = "done"]
                /\ outcome' = [outcome EXCEPT ![t] = Some(o)]
    /\ UNCHANGED <<clientVars, imageVars, credVars, args, request, job, posts, response>>

\* a variant of the resumption that takes whichever answer has arrived at
\* the client, as if the callers shared one response slot
GenerateResume_shared_response(t) ==
    /\ pc[t] = "responded"
    /\ \E u \in Tasks :
         /\ response[u] # None
         /\ outcome' = [outcome EXCEPT ![t] =
                          Some(generate_result(Get(response[u]), args[t].count))]
    /\ pc' = [pc EXCEPT ![t] = "done"]
    /\ UNCHANGED <<clientVars, imageVars, credVars, args, request, job, posts, response>>

\* the coroutine is resumed with the future's result and runs to its end
GenerateResume(t) ==
    /\ pc[t] = "responded"
    /\ outcome' = [outcome EXCEPT ![t] =
                     Some(generate_result(Get(response[t]), args[t].count))]
    /\ pc' = [pc EXCEPT ![t] = "done"]
    /\ UNCHANGED <<clientVars, imageVars, credVars, args, request, job, posts, response>>

\* the caller has taken the result; it may call generate() again
GenerateReturn(t) ==
    /\ pc[t] = "done"
    /\ pc' = [pc EXCEPT ![t] = "idle"]
    /\ args' = [args EXCEPT ![t] = NoArgs]
    /\ request' = [request EXCEPT ![t] = None]
    /\ job' = [job EXCEPT ![t] = None]
    /\ posts' = [posts EXCEPT ![t] = 0]
    /\ response' = [response EXCEPT ![t] = None]
    /\ outcome' = [outcome EXCEPT ![t] = None]
    /\ UNCHANGED <<clientVars, imageVars, credVars>>

(* ---------------------------- specifications --------------------------- *)

\* one caller: every generate() call finishes before the next one starts
Caller == CHOOSE t \in Tasks : \A u \in Tasks : t <= u

Generate == \E a \in AllArgs : GenerateCall(Caller, a)
Post == WorkerPost(Caller)
Respond ==
    /\ pc[Caller] = "in_flight"
    /\ \E r \in Responses(Get(job[Caller])) : TransportRespond(Caller, r)
Resume == GenerateResume(Caller)
Return == GenerateReturn(Caller)

Next ==
    \/ SetupCredentials
    \/ SetupCredentialsFromEnv
    \/ Generate
    \/ Post
    \/ Respond
    \/ Resume
    \/ Return

Spec == Init /\ [][Next]_vars

\* two callers whose generate() calls overlap, on fewer inputs
MaxConcPreds == 2

ConcArgs ==
    { MkArgs(<<"c", "a", "t">>, "imagegeneration@006", "1:1", 1, DefaultOptions),
      MkArgs(<<" ", "a", " ", "b", "\n">>, "imagegeneration@006", "1:1", 2,
             DefaultOptions),
      MkArgs(<<>>, "imagegeneration@006", "1:1", 1, DefaultOptions),
      MkArgs(<<"c", "a", "t">>, "not-a-real-model", "1:1", 1, DefaultOptions) }

ConcResponses(j) ==
    { TransportFailure,
      HttpResponse(403, <<"denied: ">> \o j.url, "invalid", None) }
    \cup { HttpResponse(200, <<"ok">>, "dict", Some(PredictionList(n, "echo", 0, j))) :
             n \in 0..MaxConcPreds }

ConcGenerate == \E t \in Tasks, a \in ConcArgs : GenerateCall(t, a)
ConcPost == \E t \in Tasks : WorkerPost(t)
ConcRespond ==
    \E t \in Tasks :
        /\ pc[t] = "in_flight"
        /\ \E r \in ConcResponses(Get(job[t])) : TransportRespond(t, r)
ConcResume == \E t \in Tasks : GenerateResume(t)
ConcReturn == \E t \in Tasks : GenerateReturn(t)

NextConc ==
    \/ SetupCredentials
    \/ SetupCredentialsFromEnv
    \/ ConcGenerate
    \/ ConcPost
    \/ ConcRespond
    \/ ConcResume
    \/ ConcReturn

SpecConc == Init /\ [][NextConc]_vars

(* ----------------------- GeneratedImage accessors --------------------- *)

\* longest bytesBase64Encoded string tried
MaxB64Len == 4

\* the six-bit value of a base64 character
B64Value(ch) == (CHOOSE i \in 1..Len(B64Alphabet) : B64Alphabet[i] = ch) - 1

IsB64Char(ch) == \E i \in 1..Len(B64Alphabet) : B64Alphabet[i] = ch

\* binascii.a2b_base64 as base64.b64decode calls it (validate=False): the
\* scan from character i on, with the position in the quad, the pad count,
\* the bits left over and the bytes produced so far.  Characters outside the
\* alphabet are skipped; a pad that completes the quad ends the scan; a quad
\* left open at the end raises binascii.Error.
RECURSIVE a2b_base64(_, _, _, _, _, _)
a2b_base64(s, i, quad_pos, pads, leftchar, out) ==
    IF i > Len(s)
      THEN IF quad_pos # 0
             THEN [ok |-> FALSE, bytes |-> <<>>]
             ELSE [ok |-> TRUE, bytes |-> out]
    ELSE IF s[i] = "="
      THEN IF quad_pos >= 2 /\ quad_pos + pads + 1 >= 4
             THEN [ok |-> TRUE, bytes |-> out]
             ELSE a2b_base64(s, i + 1, quad_pos,
                             IF quad_pos >= 2 THEN pads + 1 ELSE pads,
                             leftchar, out)
    ELSE IF ~IsB64Char(s[i])
      THEN a2b_base64(s, i + 1, quad_pos, pads, leftchar, out)
    ELSE LET v == B64Value(s[i]) IN
      CASE quad_pos = 0 -> a2b_base64(s, i + 1, 1, 0, v, out)
        [] quad_pos = 1 ->
             a2b_base64(s, i + 1, 2, 0, v % 16,
                        Append(out, leftchar * 4 + v \div 16))
        [] quad_pos = 2 ->
             a2b_base64(s, i + 1, 3, 0, v % 4,
                        Append(out, leftchar * 16 + v \div 4))
        [] OTHER ->
             a2b_base64(s, i + 1, 0, 0, 0, Append(out, leftchar * 64 + v))

b64decode(s) == a2b_base64(s, 1, 0, 0, 0, <<>>)

AccessReturned(op, bytes) ==
    [op |-> op, kind |-> "return", exc |-> "", bytes |-> bytes, size |-> Len(bytes)]

AccessRaised(op, exc) ==
    [op |-> op, kind |-> "raise", exc |-> exc, bytes |-> <<>>, size |-> 0]

\* the image_data property, read on behalf of accessor op: the cached bytes,
\* or the decoded bytes, which are cached; a decode error leaves the cache
image_data(op) ==
    IF ~IsNone(cached)
      THEN /\ accessResult' = AccessReturned(op, Get(cached))
           /\ UNCHANGED cached
      ELSE LET d == b64decode(Get(image).base64_data) IN
        IF d.ok
          THEN /\ cached' = Some(d.bytes)
               /\ accessResult' = AccessReturned(op, d.bytes)
          ELSE /\ accessResult' = AccessRaised(op, "binascii.Error")
               /\ UNCHANGED cached

\* image.image_data
ReadImageData ==
    /\ image # None
    /\ image_data("image_data")
    /\ UNCHANGED <<clientVars, credVars, callVars, image, file>>

\* image.size
ReadSize ==
    /\ image # None
    /\ image_data("size")
    /\ UNCHANGED <<clientVars, credVars, callVars, image, file>>

\* image.save(path): mkdir and open(path, "wb") come first (ioOk says
\* whether they succeed), then image_data is evaluated and written
save(ioOk) ==
    /\ image # None
    /\ IF ~ioOk
         THEN /\ accessResult' = AccessRaised("save", "OSError")
              /\ UNCHANGED <<cached, file>>
         ELSE /\ image_data("save")
              /\ file' = Some(accessResult'.bytes)
    /\ UNCHANGED <<clientVars, credVars, callVars, image>>

Save == \E ioOk \in BOOLEAN : save(ioOk)

\* the characters of the bytesBase64Encoded strings tried
PayloadChars == {"Q", "U", "=", "!"}

RECURSIVE Payloads(_)
Payloads(n) ==
    IF n = 0 THEN {<<>>}
    ELSE Payloads(n - 1)
         \cup { Append(d, c) : d \in { e \in Payloads(n - 1) : Len(e) = n - 1 },
                               c \in PayloadChars }

\* a caller holds one image built from a prediction of some response
InitImage ==
    /\ ClientInit
    /\ \E d \in Payloads(MaxB64Len) :
         image = Some(from_api_response(
                     [bytesBase64Encoded |-> Some(d), prompt |-> None]))
    /\ cached = None
    /\ accessResult = NoAccess
    /\ file = None

NextImage ==
    \/ ReadImageData
    \/ ReadSize
    \/ Save

SpecImage == InitImage /\ [][NextImage]_vars

(* ------------------------------ properties ---------------------------- *)

Done(t) == pc[t] = "done"
Out(t) == Get(outcome[t])
Resp(t) == Get(response[t])

RaisedClass(t, c) == Done(t) /\ Out(t).kind = "raise" /\ Out(t).exc = c

\* the call of t found a credential in the slot: it got past the first check
HadCredential(t) == pc[t] # "idle" /\ ~RaisedClass(t, "AuthenticationError")

\* the request fields as the documentation states them
Blank(p) == \A i \in 1..Len(p) : p[i] \in Whitespace
FiveRatios == {"1:1", "3:4", "4:3", "16:9", "9:16"}
WellFormed(a) ==
    /\ ~Blank(a.prompt)
    /\ a.count \in 1..4
    /\ a.aspect_ratio \in FiveRatios

Supported(a) == InList(a.model, SUPPORTED_MODELS)

\* C1: while the credential slot has never been set, every finished
\* generate() call has raised AuthenticationError, whatever its arguments,
\* and no call has handed a POST to the transport.
C1_NoCredentialNoNetwork ==
    credentials = None =>
        \A t \in Tasks :
            /\ pc[t] \in {"idle", "done"}
            /\ posts[t] = 0
            /\ job[t] = None
            /\ Done(t) => RaisedClass(t, "AuthenticationError")

\* a call with an invalid prompt, count, ratio and model on a client without
\* credential has finished
C1_Witness ==
    /\ credentials = None
    /\ Done(Caller)
    /\ Blank(args[Caller].prompt)
    /\ args[Caller].count = 0
    /\ args[Caller].aspect_ratio = "2:1"
    /\ ~Supported(args[Caller])
    /\ Out(Caller).exc = "AuthenticationError"

\* C2: a call made with a credential and malformed parameters fails with
\* ValidationError, an ImagenError, and issues no HTTP request.
C2_MalformedRaisesValidationError ==
    \A t \in Tasks :
        (Done(t) /\ HadCredential(t) /\ ~WellFormed(args[t])) =>
            /\ Out(t).kind = "raise"
            /\ Out(t).exc = "ValidationError"
            /\ IsInstance(Out(t), {"ImagenError"})
            /\ posts[t] = 0

\* C3: with a credential in place, the ImageRequest is built exactly when
\* the prompt is not blank, count is in 1..4 and the ratio is one of the
\* five; otherwise the construction raises and the call ends there.
C3_ConstructionIffWellFormed ==
    \A t \in Tasks :
        HadCredential(t) =>
            /\ (request[t] # None) <=> WellFormed(args[t])
            /\ ~WellFormed(args[t]) =>
                   /\ Done(t)
                   /\ Out(t).kind = "raise"
                   /\ job[t] = None
            /\ request[t] # None => Get(request[t]) = args[t]

\* a whitespace-only prompt with a valid count and ratio was refused
C3_Witness ==
    /\ HadCredential(Caller)
    /\ Done(Caller)
    /\ args[Caller].prompt # <<>>
    /\ Blank(args[Caller].prompt)
    /\ args[Caller].count = 2
    /\ args[Caller].aspect_ratio = "9:16"
    /\ request[Caller] = None
    /\ Out(Caller).kind = "raise"

\* the transport answered the call of t with status 200
Answered200(t) ==
    response[t] # None /\ ~Resp(t).raised /\ Resp(t).status_code = 200

\* the predictions of the response of t, <<>> when the key is absent
Preds(t) ==
    IF IsNone(Resp(t).json.predictions) THEN <<>>
    ELSE Get(Resp(t).json.predictions)

\* C4: a generate() call that returns hands back one GeneratedImage when
\* count = 1, and for count in 2..4 a list whose i-th image carries the data
\* of the i-th prediction of the response.
C4_ReturnShape ==
    \A t \in Tasks :
        (Done(t) /\ Out(t).kind = "return") =>
            /\ args[t].count = 1 =>
                   /\ Out(t).shape = "single"
                   /\ Len(Out(t).images) = 1
            /\ args[t].count \in 2..4 =>
                   /\ Out(t).shape = "list"
                   /\ Len(Out(t).images) = Len(Preds(t))
                   /\ \A i \in 1..Len(Preds(t)) :
                          Out(t).images[i].base64_data =
                              Get(Preds(t)[i].bytesBase64Encoded)

\* a call with count = 3 returned the three images of its response
C4_Witness ==
    /\ Done(Caller)
    /\ args[Caller].count = 3
    /\ Out(Caller).kind = "return"
    /\ Len(Preds(Caller)) = 3
    /\ Len(Out(Caller).images) = 3

\* C5: for a call with count = n answered with status 200, either the call
\* fails or the caller receives exactly n images, and never more than 4.
C5_AllOrNothing ==
    \A t \in Tasks :
        (Done(t) /\ Answered200(t)) =>
            \/ Out(t).kind = "raise"
            \/ /\ Len(Out(t).images) = args[t].count
               /\ Len(Out(t).images) <= 4

\* C6: with a credential and a well-formed request, a model outside the
\* supported list ends the call with ValidationError and no transport call;
\* a model inside the list gets the request handed to the transport.
C6_ModelCheck ==
    \A t \in Tasks :
        (HadCredential(t) /\ WellFormed(args[t])) =>
            IF Supported(args[t])
              THEN /\ job[t] # None
                   /\ pc[t] # "submitted" => posts[t] = 1
                   /\ ~RaisedClass(t, "ValidationError")
              ELSE /\ RaisedClass(t, "ValidationError")
                   /\ posts[t] = 0
                   /\ job[t] = None

\* a well-formed request for "not-a-real-model" was refused
C6_Witness ==
    /\ HadCredential(Caller)
    /\ WellFormed(args[Caller])
    /\ args[Caller].model = "not-a-real-model"
    /\ RaisedClass(Caller, "ValidationError")
    /\ posts[Caller] = 0

\* text occurs in message as a contiguous run
Contains(message, text) ==
    \E k \in 0..(Len(message) - Len(text)) :
        SubSeq(message, k + 1, k + Len(text)) = text

\* C7: for every status other than 200, generate() raises an APIError whose
\* status_code is that status and whose message contains the response text.
C7_Non200IsAPIError ==
    \A t \in Tasks :
        (Done(t) /\ response[t] # None /\ ~Resp(t).raised
                 /\ Resp(t).status_code # 200) =>
            /\ RaisedClass(t, "APIError")
            /\ Out(t).status_code = Some(Resp(t).status_code)
            /\ Contains(Out(t).message, Resp(t).text)

\* a 403 answer with an error body reached the caller as APIError 403
C7_Witness ==
    /\ Done(Caller)
    /\ response[Caller] # None
    /\ Resp(Caller).status_code = 403
    /\ Resp(Caller).text # <<>>
    /\ RaisedClass(Caller, "APIError")
    /\ Out(Caller).status_code = Some(403)

\* C8: a 200 answer whose predictions are empty or missing makes generate()
\* raise APIError; no call returns an empty list or no image.
C8_NoEmptyResult ==
    \A t \in Tasks :
        Done(t) =>
            /\ (Answered200(t) /\ Resp(t).json.kind = "dict" /\ Preds(t) = <<>>)
                   => RaisedClass(t, "APIError")
            /\ Out(t).kind = "return" => Out(t).images # <<>>

\* a call with count = 2 was answered 200 with predictions: []
C8_Witness ==
    /\ Done(Caller)
    /\ args[Caller].count = 2
    /\ Answered200(Caller)
    /\ Resp(Caller).json.predictions = Some(<<>>)
    /\ RaisedClass(Caller, "APIError")

\* the POST of t failed: exception, status other than 200, no predictions
FailedPost(t) ==
    /\ response[t] # None
    /\ \/ Resp(t).raised
       \/ Resp(t).status_code # 200
       \/ Resp(t).json.kind # "dict"
       \/ Preds(t) = <<>>

\* the credential, request and model checks of the call of t pass
ChecksPass(t) == HadCredential(t) /\ WellFormed(args[t]) /\ Supported(args[t])

\* C9: a generate() call issues at most one POST: one when its checks pass
\* and none otherwise; after a failed POST the call ends with the error and
\* no further request.
C9_AtMostOnePost ==
    \A t \in Tasks :
        /\ posts[t] <= 1
        /\ (pc[t] \in {"in_flight", "responded", "done"} /\ ChecksPass(t))
               => posts[t] = 1
        /\ (pc[t] # "idle" /\ ~ChecksPass(t)) => (Done(t) /\ posts[t] = 0)
        /\ (Done(t) /\ FailedPost(t)) => (Out(t).kind = "raise" /\ posts[t] = 1)

\* a call whose POST was answered 500 has ended with the error
C9_Witness ==
    /\ Done(Caller)
    /\ response[Caller] # None
    /\ ~Resp(Caller).raised
    /\ Resp(Caller).status_code = 500
    /\ posts[Caller] = 1
    /\ Out(Caller).kind = "raise"

\* C10: with two callers, what each call posts is built from its own
\* arguments, the answer it gets is an answer to its own POST, and what it
\* returns or raises is built from that answer, whatever the other caller
\* does in between.
C10_OwnRequestOwnResponse ==
    \A t \in Tasks :
        /\ job[t] # None =>
               /\ Get(job[t]).json.instances[1].prompt = args[t].prompt
               /\ Get(job[t]).json.parameters.sampleCount = args[t].count
               /\ Contains(Get(job[t]).url, <<args[t].model>>)
        /\ response[t] # None => Resp(t) \in Responses(Get(job[t]))
        /\ (Done(t) /\ response[t] # None /\ Out(t).kind = "return") =>
               \A i \in 1..Len(Out(t).images) :
                   /\ i <= Len(Preds(t))
                   /\ Out(t).images[i].base64_data =
                          Get(Preds(t)[i].bytesBase64Encoded)
                   /\ Preds(t)[i].prompt # None =>
                          Out(t).images[i].prompt = args[t].prompt
        /\ (Done(t) /\ response[t] # None /\ Out(t).kind = "raise") =>
               /\ FailedPost(t)
               /\ (~Resp(t).raised /\ Resp(t).status_code # 200) =>
                      Contains(Out(t).message, Resp(t).text)

\* the second caller's call was posted, answered and has returned its own
\* image while the first caller's POST is still waiting for its answer
C10_Witness ==
    /\ pc[1] = "in_flight"
    /\ posts[1] = 1
    /\ response[1] = None
    /\ Done(2)
    /\ posts[2] = 1
    /\ Out(2).kind = "return"
    /\ args[1].prompt # args[2].prompt
    /\ Out(2).images[1].prompt = args[2].prompt

\* base64 text as RFC 4648 defines it: quads of alphabet characters, the
\* last quad may end in one or two pads
WellEncoded(s) ==
    /\ Len(s) % 4 = 0
    /\ \A i \in 1..Len(s) :
         \/ IsB64Char(s[i])
         \/ /\ s[i] = "="
            /\ i >= Len(s) - 1
            /\ \A k \in (i + 1)..Len(s) : s[k] = "="

\* C11: when the base64_data of an image cannot be decoded, every accessor
\* that has read image_data has raised an ImagenError, has produced no
\* bytes, and nothing has been cached.
C11_DecodeFailureIsImagenError ==
    (image # None /\ ~WellEncoded(Get(image).base64_data)
       /\ accessResult.op \in {"image_data", "size"}) =>
        /\ accessResult.kind = "raise"
        /\ IsInstance(accessResult, {"ImagenError"})
        /\ cached = None

\* the JSON body of the POST built for the call of t
Body(t) == Get(job[t]).json

\* the body carries the prompt and the four fixed parameters of the call
BodyFixedPart(t) ==
    /\ Body(t).instances = << [prompt |-> args[t].prompt] >>
    /\ Body(t).parameters.sampleCount = args[t].count
    /\ Body(t).parameters.aspectRatio = args[t].aspect_ratio
    /\ Body(t).parameters.addWatermark = FALSE
    /\ Body(t).parameters.enhancePrompt = args[t].enhance_prompt

\* negativePrompt is there only when one was given; seed exactly when one
\* was given, 0 included
BodyNegativePromptAndSeed(t) ==
    /\ Body(t).parameters.negativePrompt # None =>
           /\ args[t].negative_prompt # None
           /\ Body(t).parameters.negativePrompt = args[t].negative_prompt
    /\ Body(t).parameters.seed = args[t].seed

\* C12 as stated: the request body carries the prompt and the fixed
\* parameters, negativePrompt and seed only when given, and safetySetting
\* exactly when it differs from "block_medium_and_above".
C12_SafetySettingOnlyNonDefault ==
    \A t \in Tasks :
        job[t] # None =>
            /\ BodyFixedPart(t)
            /\ BodyNegativePromptAndSeed(t)
            /\ Body(t).parameters.safetySetting # None
                   <=> args[t].safety_setting # "block_medium_and_above"
            /\ Body(t).parameters.safetySetting # None =>
                   Body(t).parameters.safetySetting = Some(args[t].safety_setting)

\* C12 as amended: the request body carries the prompt and the fixed
\* parameters, negativePrompt and seed only when given, and safetySetting
\* exactly when it is a non-empty string, the default included.
C12_SafetySettingWhenNonEmpty ==
    \A t \in Tasks :
        job[t] # None =>
            /\ BodyFixedPart(t)
            /\ BodyNegativePromptAndSeed(t)
            /\ Body(t).parameters.safetySetting # None
                   <=> args[t].safety_setting # ""
            /\ Body(t).parameters.safetySetting # None =>
                   Body(t).parameters.safetySetting = Some(args[t].safety_setting)

\* a request with the default safety setting was built and carries it
C12_DefaultWitness ==
    /\ job[Caller] # None
    /\ args[Caller].safety_setting = "block_medium_and_above"
    /\ Body(Caller).parameters.safetySetting = Some("block_medium_and_above")
    /\ Body(Caller).parameters.seed = None

\* the prediction the i-th returned image of t was built from
SourcePrediction(t, i) == Preds(t)[i]

\* the i-th returned image carries the data of its prediction and, when the
\* prediction has a prompt, that prompt in both prompt fields
ImageFromPrediction(t, i) ==
    /\ i <= Len(Preds(t))
    /\ Out(t).images[i].base64_data =
           Get(SourcePrediction(t, i).bytesBase64Encoded)
    /\ SourcePrediction(t, i).prompt # None =>
           /\ Out(t).images[i].prompt = Get(SourcePrediction(t, i).prompt)
           /\ Out(t).images[i].enhanced_prompt = Get(SourcePrediction(t, i).prompt)

\* C13 as stated: every returned image carries its prediction's data and
\* prompt; when the prediction has no prompt, prompt is empty and
\* enhanced_prompt is the prompt the caller passed to generate().
C13_EnhancedFallsBackToCallerPrompt ==
    \A t \in Tasks :
        (Done(t) /\ Out(t).kind = "return") =>
            \A i \in 1..Len(Out(t).images) :
                /\ ImageFromPrediction(t, i)
                /\ SourcePrediction(t, i).prompt = None =>
                       /\ Out(t).images[i].prompt = <<>>
                       /\ Out(t).images[i].enhanced_prompt = args[t].prompt

\* C13 as amended: every returned image carries its prediction's data and
\* prompt; when the prediction has no prompt, prompt and enhanced_prompt
\* are both the empty string.
C13_EnhancedFallsBackToEmpty ==
    \A t \in Tasks :
        (Done(t) /\ Out(t).kind = "return") =>
            \A i \in 1..Len(Out(t).images) :
                /\ ImageFromPrediction(t, i)
                /\ SourcePrediction(t, i).prompt = None =>
                       /\ Out(t).images[i].prompt = <<>>
                       /\ Out(t).images[i].enhanced_prompt = <<>>

\* a call with a prompt got back two images whose predictions had none
C13_Witness ==
    /\ Done(Caller)
    /\ Out(Caller).kind = "return"
    /\ args[Caller].prompt # <<>>
    /\ Len(Out(Caller).images) = 2
    /\ SourcePrediction(Caller, 2).prompt = None
    /\ Out(Caller).images[2].enhanced_prompt = <<>>

\* C14: a setup_credentials* call that fails leaves the credential slot as
\* it was, so the slot holds a credential only if some setup call returned
\* True, and while no setup call has returned True every finished generate()
\* call has raised AuthenticationError and none has reached the network.
C14_FailedSetupLeavesSlot ==
    /\ credentials # None => setupTrueSeen
    /\ ~setupTrueSeen =>
           \A t \in Tasks :
               /\ pc[t] \in {"idle", "done"}
               /\ posts[t] = 0
               /\ Done(t) => RaisedClass(t, "AuthenticationError")

====
